---- MODULE Spec2Model ----
(***************************************************************************)
(* A model of the Hangman environment (hangman_env.py), the letter         *)
(* predictor (hangman_hmm.py) and the Q-learning agent (hangman_agent.py). *)
(*                                                                         *)
(* A Python string is a sequence of one-character strings, so that a word  *)
(* can be indexed and lowercased character by character.  None is the      *)
(* one-element sequence NoneVal, which is no word.                         *)
(***************************************************************************)
EXTENDS Integers, Sequences, FiniteSets, TLC

\* ------------------------------------------------------------------ bounds

\* How many letters of 'abcdefghijklmnopqrstuvwxyz' the model keeps.
NumLetters == 3

\* ------------------------------------------------------------- characters

AllLetters == <<"a", "b", "c", "d", "e", "f", "g", "h">>

AllUppers == <<"A", "B", "C", "D", "E", "F", "G", "H">>

\* set('abcdefghijklmnopqrstuvwxyz'), cut to NumLetters letters.
Alphabet == {AllLetters[i] : i \in 1..NumLetters}

Uppers == {AllUppers[i] : i \in 1..NumLetters}

\* A character str.isalpha() accepts and str.lower() leaves alone, which is
\* not one of the letters of Alphabet (an accented lowercase letter).
Accented == "e-acute"

Placeholder == "_"

Space == " "

NoneVal == <<"None">>

\* str.isalpha() on one character.
IsAlphaChar(c) == c \in Alphabet \cup Uppers \cup {Accented}

\* str.lower() on one character.
LowerChar(c) ==
    IF \E i \in 1..NumLetters : AllUppers[i] = c
    THEN AllLetters[CHOOSE i \in 1..NumLetters : AllUppers[i] = c]
    ELSE c

\* str.lower() on a string.
Lower(s) == [i \in 1..Len(s) |-> LowerChar(s[i])]

\* str.isalpha() on a string: non-empty and every character alphabetic.
IsAlpha(s) == Len(s) > 0 /\ \A i \in 1..Len(s) : IsAlphaChar(s[i])

RECURSIVE LStrip(_)
LStrip(s) == IF s # <<>> /\ Head(s) = Space THEN LStrip(Tail(s)) ELSE s

RECURSIVE RStrip(_)
RStrip(s) ==
    IF s # <<>> /\ s[Len(s)] = Space THEN RStrip(SubSeq(s, 1, Len(s) - 1)) ELSE s

\* str.strip() on a line of the corpus file.
Strip(s) == RStrip(LStrip(s))

\* ------------------------------------------------------------ corpus files

\* The lines of the word-list files the environment may be constructed on.
CorpusFiles ==
    { << <<"a", "b">>, <<"B", "a">>, <<Space, "c", Space>>, <<>>,
         <<"a", Placeholder>> >>,
      << <<"b">>, <<Accented, "a">>, <<Space>> >> }

RECURSIVE LoadWordsFrom(_)
\* [line.strip().lower() for line in f if line.strip() and line.strip().isalpha()]
LoadWordsFrom(lines) ==
    IF lines = <<>> THEN <<>>
    ELSE LET line == Strip(Head(lines))
             rest == LoadWordsFrom(Tail(lines))
         IN  IF line # <<>> /\ IsAlpha(line) THEN <<Lower(line)>> \o rest
             ELSE rest

\* ------------------------------------------------------------------ state

VARIABLES
    word_list,          \* env.word_list
    max_wrong,          \* env.max_wrong
    target_word,        \* env.target_word
    masked_word,        \* env.masked_word
    guessed_letters,    \* env.guessed_letters
    wrong_guesses,      \* env.wrong_guesses
    game_over,          \* env.game_over
    won,                \* env.won
    op,                 \* the last call made on env: "init", "reset", "step"
    word,               \* the argument of the last reset (NoneVal: none given)
    letter,             \* the argument of the last step
    state,              \* the GameState the last call returned
    reward,             \* the reward the last step returned
    done,               \* the done flag the last step returned
    info,               \* the info the last step returned
    models,             \* hmm.models: word length -> length model
    letter_frequencies, \* hmm.letter_frequencies: word length -> frequencies
    hmm_masked,         \* the masked_word handed to the predictor
    hmm_guessed,        \* the guessed_letters handed to the predictor
    hmm_called,         \* predict_letter_probabilities has returned
    hmm_probs,          \* the distribution it returned
    q_table,            \* agent.q_table: state key -> (letter -> value)
    epsilon,            \* agent.epsilon
    training_stats,     \* agent.training_stats
    calls,              \* the calls of train and evaluate made so far
    pc,                 \* where the running train or evaluate stands
    num_episodes,       \* num_episodes of train, num_games of evaluate
    episode,            \* the index of the for loop
    total_reward,       \* train's total_reward of the episode
    ep_wrong,           \* the loop's wrong_guesses of the episode
    ep_repeated,        \* evaluate's repeated_guesses of the episode
    wins,               \* evaluate's wins
    total_wrong,        \* evaluate's total_wrong
    total_repeated,     \* evaluate's total_repeated
    results,            \* what evaluate returned
    available,          \* the list get_available_actions() returned
    action,             \* what choose_action returned
    explored            \* choose_action took the explore branch

envVars ==
    <<word_list, max_wrong, target_word, masked_word, guessed_letters,
      wrong_guesses, game_over, won>>

callVars == <<op, word, letter, state, reward, done, info>>

hmmVars ==
    <<models, letter_frequencies, hmm_masked, hmm_guessed, hmm_called, hmm_probs>>

agentVars == <<q_table, epsilon, training_stats>>

loopVars ==
    <<calls, pc, num_episodes, episode, total_reward, ep_wrong, ep_repeated,
      wins, total_wrong, total_repeated, results, available, action, explored>>

\* What an operation of the environment, called on its own, leaves alone.
notEnvVars == <<hmmVars, agentVars, loopVars>>

vars == <<envVars, callVars, hmmVars, agentVars, loopVars>>

\* --------------------------------------------------- HangmanEnvironment

\* _get_state() with the lives clamped at zero.
GetStateClamped(masked, guessed, wrong, over, wn, target) ==
    [masked_word |-> masked,
     guessed_letters |-> guessed,
     wrong_guesses |-> wrong,
     lives_remaining |-> IF max_wrong - wrong < 0 THEN 0 ELSE max_wrong - wrong,
     game_over |-> over,
     won |-> wn,
     target_word |-> target]

\* _get_state(): the snapshot of the environment's fields.
GetState(masked, guessed, wrong, over, wn, target) ==
    [masked_word |-> masked,
     guessed_letters |-> guessed,
     wrong_guesses |-> wrong,
     lives_remaining |-> max_wrong - wrong,
     game_over |-> over,
     won |-> wn,
     target_word |-> target]

\* '_' * len(target)
AllPlaceholders(target) == [i \in 1..Len(target) |-> Placeholder]

\* What the caller holds of step's results before the episode's first step.
NoLetter == ""

NoInfo == [repeated |-> FALSE, correct |-> FALSE, msg |-> <<>>]

\* reset that keeps the guessed letters of the episode before.
ResetToKeepingGuesses(target) ==
    /\ target_word' = target
    /\ masked_word' = AllPlaceholders(target)
    /\ guessed_letters' = guessed_letters
    /\ wrong_guesses' = 0
    /\ game_over' = FALSE
    /\ won' = FALSE
    /\ state' = GetState(masked_word', guessed_letters', wrong_guesses',
                         game_over', won', target_word')
    /\ op' = "reset"
    /\ letter' = NoLetter
    /\ reward' = 0
    /\ done' = FALSE
    /\ info' = NoInfo
    /\ UNCHANGED <<word_list, max_wrong>>

\* The body of reset once target_word is chosen; the caller starts the
\* episode holding no result of a step.
ResetTo(target) ==
    /\ target_word' = target
    /\ masked_word' = AllPlaceholders(target)
    /\ guessed_letters' = {}
    /\ wrong_guesses' = 0
    /\ game_over' = FALSE
    /\ won' = FALSE
    /\ state' = GetState(masked_word', guessed_letters', wrong_guesses',
                         game_over', won', target_word')
    /\ op' = "reset"
    /\ letter' = NoLetter
    /\ reward' = 0
    /\ done' = FALSE
    /\ info' = NoInfo
    /\ UNCHANGED <<word_list, max_wrong>>

\* reset(word) with a word given.
Reset(w) ==
    /\ word' = w
    /\ ResetTo(Lower(w))
    /\ UNCHANGED notEnvVars

\* reset() with word None: random.choice(self.word_list), which raises on an
\* empty list before anything is assigned.
ResetRandomBody ==
    /\ word_list # <<>>
    /\ word' = NoneVal
    /\ \E i \in 1..Len(word_list) : ResetTo(word_list[i])

\* reset() called on the environment alone.
ResetRandom ==
    /\ ResetRandomBody
    /\ UNCHANGED notEnvVars

\* letter in self.target_word, for a one-character letter.
InWord(lt, target) == \E i \in 1..Len(target) : target[i] = lt

\* The reveal loop started from a fresh all-placeholder mask.
RevealLetterFromBlank(masked, target, lt) ==
    [i \in 1..Len(masked) |-> IF target[i] = lt THEN lt ELSE Placeholder]

\* The loop of the correct branch stopping at the first occurrence.
RevealFirstOccurrence(masked, target, lt) ==
    LET first == CHOOSE i \in 1..Len(target) :
                    target[i] = lt /\ \A j \in 1..(i - 1) : target[j] # lt
    IN  [i \in 1..Len(masked) |-> IF i = first THEN lt ELSE masked[i]]

\* The loop of the correct branch: the mask with every occurrence of the
\* letter revealed.
RevealLetter(masked, target, lt) ==
    [i \in 1..Len(masked) |-> IF target[i] = lt THEN lt ELSE masked[i]]

\* The loop of the correct branch: how many positions it revealed.
Occurrences(target, lt) == Cardinality({i \in 1..Len(target) : target[i] = lt})

\* The guessed set with the letter added as it was passed, not lowercased.
GuessedAfterNoLower(l) == guessed_letters \cup {l}

\* self.guessed_letters after letter = letter.lower(); add(letter).
GuessedAfter(l) == guessed_letters \cup {LowerChar(l)}

\* The repeated-guess branch charged as a wrong guess.
StepRepeatedCounted(lt) ==
    /\ reward' = -2
    /\ info' = [repeated |-> TRUE, correct |-> FALSE,
                msg |-> <<"Already guessed", lt>>]
    /\ wrong_guesses' = wrong_guesses + 1
    /\ UNCHANGED <<masked_word, game_over, won>>

\* The repeated-guess branch.
StepRepeated(lt) ==
    /\ reward' = -2
    /\ info' = [repeated |-> TRUE, correct |-> FALSE,
                msg |-> <<"Already guessed", lt>>]
    /\ UNCHANGED <<masked_word, wrong_guesses, game_over, won>>

\* The branch of a letter that occurs in the target word.
StepCorrect(lt) ==
    LET new_masked == RevealLetter(masked_word, target_word, lt)
        occurrences == Occurrences(target_word, lt)
        complete == \A i \in 1..Len(new_masked) : new_masked[i] # Placeholder
    IN  /\ masked_word' = new_masked
        /\ won' = IF complete THEN TRUE ELSE won
        /\ game_over' = IF complete THEN TRUE ELSE game_over
        /\ reward' = IF complete THEN 10 * occurrences + 100
                      ELSE 10 * occurrences
        /\ info' = [repeated |-> FALSE, correct |-> TRUE,
                    msg |-> IF complete THEN <<"Won", target_word>>
                            ELSE <<"Correct", lt, occurrences>>]
        /\ UNCHANGED wrong_guesses

\* The wrong-guess branch with > for >= in the test of the lives.
StepWrongOffByOne(lt) ==
    LET lost == wrong_guesses + 1 > max_wrong
    IN  /\ wrong_guesses' = wrong_guesses + 1
        /\ game_over' = IF lost THEN TRUE ELSE game_over
        /\ reward' = IF lost THEN -5 - 50 ELSE -5
        /\ info' = [repeated |-> FALSE, correct |-> FALSE,
                    msg |-> IF lost THEN <<"Lost", target_word>>
                            ELSE <<"Wrong", lt>>]
        /\ UNCHANGED <<masked_word, won>>

\* The branch of a letter that does not occur in the target word.
StepWrong(lt) ==
    LET lost == wrong_guesses + 1 >= max_wrong
    IN  /\ wrong_guesses' = wrong_guesses + 1
        /\ game_over' = IF lost THEN TRUE ELSE game_over
        /\ reward' = IF lost THEN -5 - 50 ELSE -5
        /\ info' = [repeated |-> FALSE, correct |-> FALSE,
                    msg |-> IF lost THEN <<"Lost", target_word>>
                            ELSE <<"Wrong", lt>>]
        /\ UNCHANGED <<masked_word, won>>

\* step(letter): the whole method, on an environment that has been reset.
StepBody(l) ==
    LET lt == LowerChar(l)
        repeated == lt \in guessed_letters
    IN  /\ target_word # NoneVal
        /\ letter' = l
        /\ op' = "step"
        /\ guessed_letters' = GuessedAfter(l)
        /\ IF repeated THEN StepRepeated(lt)
           ELSE IF InWord(lt, target_word) THEN StepCorrect(lt)
           ELSE StepWrong(lt)
        /\ state' = GetState(masked_word', guessed_letters', wrong_guesses',
                             game_over', won', target_word)
        /\ done' = game_over'
        /\ UNCHANGED <<word_list, max_wrong, target_word, word>>

\* step(letter) called as the callers are meant to: while the game is on.
Step(l) ==
    /\ ~game_over
    /\ StepBody(l)
    /\ UNCHANGED notEnvVars

\* step(letter) called on an episode that is already over.
StepAfterGameOver(l) ==
    /\ game_over
    /\ StepBody(l)
    /\ UNCHANGED notEnvVars

\* ------------------------------------------------------------ numbers

\* A Python float the code computes from counts is the exact fraction
\* <<numerator, denominator>>, in lowest terms with a positive denominator.
RECURSIVE Gcd(_, _)
Gcd(a, b) == IF b = 0 THEN a ELSE Gcd(b, a % b)

Abs(a) == IF a < 0 THEN -a ELSE a

Rat(n, d) ==
    LET g == Gcd(Abs(n), Abs(d))
        sgn == IF d < 0 THEN -1 ELSE 1
    IN  <<sgn * (n \div g), sgn * (d \div g)>>

RatZero == <<0, 1>>

RatAdd(x, y) == Rat(x[1] * y[2] + y[1] * x[2], x[2] * y[2])

RatMul(x, y) == Rat(x[1] * y[1], x[2] * y[2])

\* x / y, for y # 0.
RatDiv(x, y) == Rat(x[1] * y[2], x[2] * y[1])

RatLess(x, y) == x[1] * y[2] < y[1] * x[2]

RECURSIVE SumOver(_, _)
\* sum(d[k] for k in keys)
SumOver(d, keys) ==
    IF keys = {} THEN RatZero
    ELSE LET k == CHOOSE x \in keys : TRUE
         IN  RatAdd(d[k], SumOver(d, keys \ {k}))

\* sum(d.values())
SumValues(d) == SumOver(d, DOMAIN d)

\* {} : a dict with no key.
EmptyDict == [k \in {} |-> RatZero]

\* d.get(k, default)
Get(d, k, default) == IF k \in DOMAIN d THEN d[k] ELSE default

\* ------------------------------------------------------------ HangmanHMM

\* The lines of the corpus files the predictor may be trained on.
HmmCorpusFiles ==
    { << <<"a", "b">>, <<"b", "a">>, <<"a", "a">>, <<"c", "a">>, <<"A", "c">>,
         <<"b", "c">>, <<Accented, "a">>, <<Space, "a", "b">>, <<>>,
         <<"a", Placeholder>> >>,
      << <<"a">>, <<"b", "a">>, <<"b", "a">>, <<Space>>, <<"a", "b">>,
         <<"a", "a">>, <<"b", "b">>, <<"a", "B">> >>,
      << >> }

RECURSIVE HmmWordsFrom(_)
\* [line.strip().lower() for line in f if line.strip()]
HmmWordsFrom(lines) ==
    IF lines = <<>> THEN <<>>
    ELSE LET line == Strip(Head(lines))
             rest == HmmWordsFrom(Tail(lines))
         IN  IF line # <<>> THEN <<Lower(line)>> \o rest ELSE rest

RECURSIVE WordsOfLength(_, _)
\* words_by_length[n]: the alphabetic words of length n, in corpus order.
WordsOfLength(words, n) ==
    IF words = <<>> THEN <<>>
    ELSE LET w == Head(words)
             rest == WordsOfLength(Tail(words), n)
         IN  IF IsAlpha(w) /\ Len(w) = n THEN <<w>> \o rest ELSE rest

\* The keys of words_by_length.
CorpusLengths(words) ==
    {Len(words[i]) : i \in {j \in 1..Len(words) : IsAlpha(words[j])}}

\* _train_length_model(words, length)
TrainLengthModel(ws, length) ==
    [emission_probs |->
        [pos \in 1..length |->
            LET position_total == Cardinality({i \in 1..Len(ws) : pos <= Len(ws[i])})
            IN  [l \in {ws[i][pos] : i \in 1..Len(ws)} |->
                    Rat(Cardinality({i \in 1..Len(ws) : ws[i][pos] = l}),
                        position_total)]],
     words |-> ws]

RECURSIVE Concat(_)
\* ''.join(words)
Concat(ws) == IF ws = <<>> THEN <<>> ELSE Head(ws) \o Concat(Tail(ws))

\* _calculate_frequencies(words)
CalculateFrequencies(ws) ==
    LET all_letters == Concat(ws)
        total == Len(all_letters)
    IN  [l \in {all_letters[i] : i \in 1..Len(all_letters)} |->
            Rat(Cardinality({i \in 1..Len(all_letters) : all_letters[i] = l}), total)]

\* models after train(corpus_file): the lengths of the corpus are (re)trained,
\* the other lengths keep their model.
ModelsAfterTrain(old, f) ==
    LET words == HmmWordsFrom(f)
        lengths == CorpusLengths(words)
    IN  [n \in (DOMAIN old) \cup lengths |->
            IF n \in lengths THEN TrainLengthModel(WordsOfLength(words, n), n)
            ELSE old[n]]

\* letter_frequencies after train(corpus_file).
FrequenciesAfterTrain(old, f) ==
    LET words == HmmWordsFrom(f)
        lengths == CorpusLengths(words)
    IN  [n \in (DOMAIN old) \cup lengths |->
            IF n \in lengths THEN CalculateFrequencies(WordsOfLength(words, n))
            ELSE old[n]]

\* One word against the pattern, in _filter_matching_words.
WordMatches(w, masked, guessed) ==
    /\ Len(w) = Len(masked)
    /\ \A i \in 1..Len(masked) :
          IF masked[i] # Placeholder THEN w[i] = masked[i]
          ELSE w[i] \notin guessed

RECURSIVE FilterMatchingWords(_, _, _)
\* _filter_matching_words(words, masked_word, guessed_letters)
FilterMatchingWords(ws, masked, guessed) ==
    IF ws = <<>> THEN <<>>
    ELSE LET rest == FilterMatchingWords(Tail(ws), masked, guessed)
         IN  IF WordMatches(Head(ws), masked, guessed) THEN <<Head(ws)>> \o rest
             ELSE rest

\* The unrevealed positions of a masked word.
Unrevealed(masked) == {i \in 1..Len(masked) : masked[i] = Placeholder}

\* _position_based_scoring ranging over every letter, guessed or not.
PositionBasedScoringAllLetters(masked, emission_probs, remaining_letters) ==
    LET scored == {l \in Alphabet :
                      \E pos \in Unrevealed(masked) : l \in DOMAIN emission_probs[pos]}
    IN  [l \in scored |->
            SumOver([pos \in Unrevealed(masked) |->
                        Get(emission_probs[pos], l, RatZero)],
                    Unrevealed(masked))]

\* _position_based_scoring(masked_word, emission_probs, remaining_letters): a
\* letter gets a key when some unrevealed position has an emission for it.
PositionBasedScoring(masked, emission_probs, remaining_letters) ==
    LET scored == {l \in remaining_letters :
                      \E pos \in Unrevealed(masked) : l \in DOMAIN emission_probs[pos]}
    IN  [l \in scored |->
            SumOver([pos \in Unrevealed(masked) |->
                        Get(emission_probs[pos], l, RatZero)],
                    Unrevealed(masked))]

\* _frequency_based_scoring(words, masked_word, remaining_letters): a letter
\* gets a key when some word has it at an unrevealed position.
FrequencyBasedScoring(ws, masked, remaining_letters) ==
    LET hits(l) == {<<i, pos>> \in (1..Len(ws)) \X Unrevealed(masked) :
                       ws[i][pos] = l}
        scored == {l \in remaining_letters : hits(l) # {}}
    IN  [l \in scored |-> Rat(Cardinality(hits(l)), 1)]

\* What a call that raised ZeroDivisionError leaves in place of its result.
ZeroDivisionError == [e \in {"ZeroDivisionError"} |-> RatZero]

\* all_freq of the fallback when the length has no table: the tables of all
\* lengths summed letter by letter.
AllFrequencies(lf) ==
    LET letters == UNION {DOMAIN lf[n] : n \in DOMAIN lf}
    IN  [l \in letters |->
            SumOver([n \in DOMAIN lf |-> Get(lf[n], l, RatZero)], DOMAIN lf)]

\* The frequency table of the fallback when the length has none: the tables
\* of all lengths summed letter by letter, then normalised.
AggregatedFrequencies(lf) ==
    LET all_freq == AllFrequencies(lf)
        total == SumValues(all_freq)
    IN  [l \in DOMAIN all_freq |-> RatDiv(all_freq[l], total)]

\* A prior of zero for a letter the frequency table does not hold.
FallbackPriorZero == RatZero

\* The prior of a letter the frequency table does not hold.
FallbackPrior == Rat(1, 100)

\* freq of the fallback, once it is computed without an error.
FallbackFrequencies(lf, length) ==
    IF length \in DOMAIN lf THEN lf[length] ELSE AggregatedFrequencies(lf)

\* remaining_freq of the fallback.
RemainingFrequencies(lf, guessed, length) ==
    [l \in Alphabet \ guessed |->
        Get(FallbackFrequencies(lf, length), l, FallbackPrior)]

\* A division of _fallback_probabilities is reached with a divisor of zero:
\* v / total over a non-empty all_freq, or prob / total over a non-empty
\* remaining_freq.
FallbackDividesByZero(lf, guessed, length) ==
    \/ /\ length \notin DOMAIN lf
       /\ DOMAIN AllFrequencies(lf) # {}
       /\ SumValues(AllFrequencies(lf)) = RatZero
    \/ /\ Alphabet \ guessed # {}
       /\ SumValues(RemainingFrequencies(lf, guessed, length)) = RatZero

\* _fallback_probabilities(guessed_letters, length)
FallbackProbabilities(lf, guessed, length) ==
    IF FallbackDividesByZero(lf, guessed, length) THEN ZeroDivisionError
    ELSE LET remaining_freq == RemainingFrequencies(lf, guessed, length)
             total == SumValues(remaining_freq)
         IN  [l \in DOMAIN remaining_freq |-> RatDiv(remaining_freq[l], total)]

\* Below this many matching words the scoring is position-based.
MinMatchingWords == 5

\* The scores of predict_letter_probabilities, for a length that has a model.
LetterScores(mdls, masked, guessed) ==
    LET model == mdls[Len(masked)]
        remaining_letters == Alphabet \ guessed
        matching_words == FilterMatchingWords(model.words, masked, guessed)
    IN  IF Len(matching_words) < MinMatchingWords
        THEN PositionBasedScoring(masked, model.emission_probs, remaining_letters)
        ELSE FrequencyBasedScoring(matching_words, masked, remaining_letters)

\* predict_letter_probabilities(masked_word, guessed_letters)
PredictLetterProbabilities(mdls, lf, masked, guessed) ==
    IF Len(masked) \notin DOMAIN mdls
    THEN FallbackProbabilities(lf, guessed, Len(masked))
    ELSE LET letter_scores == LetterScores(mdls, masked, guessed)
             total == SumValues(letter_scores)
         IN  IF total = RatZero
             THEN FallbackProbabilities(lf, guessed, Len(masked))
             ELSE [l \in DOMAIN letter_scores |-> RatDiv(letter_scores[l], total)]

\* hmm.train(corpus_file), before any prediction is asked.
HmmTrain(f) ==
    /\ ~hmm_called
    /\ models' = ModelsAfterTrain(models, f)
    /\ letter_frequencies' = FrequenciesAfterTrain(letter_frequencies, f)
    /\ UNCHANGED <<hmm_masked, hmm_guessed, hmm_called, hmm_probs>>
    /\ UNCHANGED <<envVars, callVars, agentVars, loopVars>>

\* hmm.predict_letter_probabilities(masked_word, guessed_letters), called on
\* the predictor alone.
HmmPredict ==
    /\ ~hmm_called
    /\ hmm_called' = TRUE
    /\ hmm_probs' = PredictLetterProbabilities(models, letter_frequencies,
                                               hmm_masked, hmm_guessed)
    /\ UNCHANGED <<models, letter_frequencies, hmm_masked, hmm_guessed>>
    /\ UNCHANGED <<envVars, callVars, agentVars, loopVars>>

\* -------------------------------------------------------- HangmanRLAgent

RatSub(x, y) == Rat(x[1] * y[2] - y[1] * x[2], x[2] * y[2])

\* An int as a float.
RatOf(n) == <<n, 1>>

RECURSIVE MaxOver(_, _)
\* max(d[k] for k in keys), keys not empty.
MaxOver(d, keys) ==
    LET k == CHOOSE x \in keys : TRUE
    IN  IF keys = {k} THEN d[k]
        ELSE LET m == MaxOver(d, keys \ {k})
             IN  IF RatLess(m, d[k]) THEN d[k] ELSE m

\* The defaults of HangmanRLAgent.__init__.
LearningRate == Rat(1, 10)

DiscountFactor == Rat(95, 100)

EpsilonStartDefault == Rat(1, 1)

EpsilonEnd == Rat(1, 10)

EpsilonDecay == Rat(995, 1000)

\* hmm_probs.get(action, 0.001)
DefaultProbability == Rat(1, 1000)

\* The weight of the predictor's probability in the combined score.
HmmWeight == RatOf(10)

\* Python's None where a letter is expected.
NoneAction == "None"

NoStats ==
    [episodes |-> <<>>, rewards |-> <<>>, wins |-> <<>>, wrong_guesses |-> <<>>]

\* The report of evaluate, before any evaluate has returned.
NoResults ==
    [success_rate |-> RatZero, wins |-> 0, total_games |-> 0,
     total_wrong_guesses |-> 0, total_repeated_guesses |-> 0,
     final_score |-> RatZero]

\* HangmanRLAgent(hmm, epsilon_start=eps), with no train or evaluate running.
AgentConstructed(eps) ==
    /\ q_table = EmptyDict
    /\ epsilon = eps
    /\ training_stats = NoStats
    /\ calls = <<>>
    /\ pc = "idle"
    /\ num_episodes = 0
    /\ episode = 0
    /\ total_reward = 0
    /\ ep_wrong = 0
    /\ ep_repeated = 0
    /\ wins = 0
    /\ total_wrong = 0
    /\ total_repeated = 0
    /\ results = NoResults
    /\ available = <<>>
    /\ action = NoneAction
    /\ explored = FALSE

\* _get_state_key(state): sorted(guessed_letters) as a tuple is the set.
StateKey(st) == <<st.masked_word, st.guessed_letters, st.lives_remaining>>

\* The value the table holds at [key][a]; 0.0 where it holds none.
QValue(q, key, a) ==
    IF key \in DOMAIN q /\ a \in DOMAIN q[key] THEN q[key][a] ELSE RatZero

\* The letters the table holds for key.
QLetters(q, key) == IF key \in DOMAIN q THEN DOMAIN q[key] ELSE {}

\* The table after self.q_table[key][a] has been read for every a of acts:
\* the defaultdicts insert the key, and each letter with 0.0, on a read.
QTouched(q, key, acts) ==
    [k \in (DOMAIN q) \cup {key} |->
        IF k = key
        THEN [a \in QLetters(q, key) \cup acts |-> QValue(q, key, a)]
        ELSE q[k]]

\* combined_score of one action in the exploit branch.
CombinedScore(q, key, probs, a) ==
    RatAdd(QValue(q, key, a), RatMul(Get(probs, a, DefaultProbability), HmmWeight))

RECURSIVE ExploitLoopLastBest(_, _, _, _, _, _)
\* The for loop moving best_action on a combined score that is greater or
\* equal.
ExploitLoopLastBest(q, key, probs, avail, i, best) ==
    IF i > Len(avail) THEN best
    ELSE IF RatLess(CombinedScore(q, key, probs, avail[i]),
                    CombinedScore(q, key, probs, best))
         THEN ExploitLoopLastBest(q, key, probs, avail, i + 1, best)
         ELSE ExploitLoopLastBest(q, key, probs, avail, i + 1, avail[i])

RECURSIVE ExploitLoop(_, _, _, _, _, _)
\* The for loop of the exploit branch from position i on: best_action moves
\* only on a strictly greater combined score.
ExploitLoop(q, key, probs, avail, i, best) ==
    IF i > Len(avail) THEN best
    ELSE IF RatLess(CombinedScore(q, key, probs, best),
                    CombinedScore(q, key, probs, avail[i]))
         THEN ExploitLoop(q, key, probs, avail, i + 1, avail[i])
         ELSE ExploitLoop(q, key, probs, avail, i + 1, best)

\* The exploit branch with a fallback on a best score that is not positive:
\* the first letter of the list, as one outcome of random.choice.
ExploitChoiceWithFallback(q, key, probs, avail) ==
    LET best == ExploitLoop(q, key, probs, avail, 2, avail[1])
    IN  IF RatLess(RatZero, CombinedScore(q, key, probs, best)) THEN best
        ELSE avail[1]

\* The exploit branch of choose_action on a non-empty list: the first action
\* beats -inf, and a best_action that is a letter is returned as it is.
ExploitChoice(q, key, probs, avail) ==
    ExploitLoop(q, key, probs, avail, 2, avail[1])

\* The elements of a list.
Elements(seq) == {seq[i] : i \in 1..Len(seq)}

\* What the explore branch of choose_action may return: a letter the
\* predictor covers, drawn with its probability, or any available letter
\* when it covers none.
ExploreChoices(probs, avail) ==
    LET letters == {l \in Elements(avail) : l \in DOMAIN probs}
    IN  IF letters = {} THEN Elements(avail)
        ELSE {l \in letters : RatLess(RatZero, probs[l])}

\* update_q_value with max_next_q taken as 0 whatever the next state holds.
QAfterUpdateNoLookahead(q, st, a, r, next_st, d) ==
    LET state_key == StateKey(st)
        q1 == QTouched(q, state_key, {a})
        current_q == QValue(q1, state_key, a)
        q2 == IF d THEN q1 ELSE QTouched(q1, StateKey(next_st), {})
        new_q == RatAdd(current_q,
                        RatMul(LearningRate, RatSub(RatOf(r), current_q)))
    IN  [k \in DOMAIN q2 |->
            IF k = state_key
            THEN [b \in DOMAIN q2[k] |-> IF b = a THEN new_q ELSE q2[k][b]]
            ELSE q2[k]]

\* The table after update_q_value(state, action, reward, next_state, done).
QAfterUpdate(q, st, a, r, next_st, d) ==
    LET state_key == StateKey(st)
        q1 == QTouched(q, state_key, {a})
        current_q == QValue(q1, state_key, a)
        next_state_key == StateKey(next_st)
        q2 == IF d THEN q1 ELSE QTouched(q1, next_state_key, {})
        max_next_q ==
            IF d THEN RatZero
            ELSE IF DOMAIN q2[next_state_key] = {} THEN RatZero
                 ELSE MaxOver(q2[next_state_key], DOMAIN q2[next_state_key])
        new_q ==
            RatAdd(current_q,
                   RatMul(LearningRate,
                          RatSub(RatAdd(RatOf(r), RatMul(DiscountFactor, max_next_q)),
                                 current_q)))
    IN  [k \in DOMAIN q2 |->
            IF k = state_key
            THEN [b \in DOMAIN q2[k] |-> IF b = a THEN new_q ELSE q2[k][b]]
            ELSE q2[k]]

\* A decay that drops epsilon to its floor at once.
DecayedEpsilonToFloor(eps) == EpsilonEnd

\* decay_epsilon()
DecayedEpsilon(eps) ==
    LET e == RatMul(eps, EpsilonDecay)
    IN  IF RatLess(e, EpsilonEnd) THEN EpsilonEnd ELSE e

\* The elements of a set in the order of AllLetters.
RECURSIVE InAlphabetOrder(_, _)
InAlphabetOrder(set, i) ==
    IF i > Len(AllLetters) THEN <<>>
    ELSE (IF AllLetters[i] \in set THEN <<AllLetters[i]>> ELSE <<>>)
            \o InAlphabetOrder(set, i + 1)

RECURSIVE Orders(_)
\* The orders in which list(set) may give the elements of a set: every one,
\* the order of a set of strings changing from one run to the next.
Orders(set) ==
    IF set = {} THEN {<<>>}
    ELSE UNION {{<<x>> \o o : o \in Orders(set \ {x})} : x \in set}

\* get_available_actions() that forgets the guessed letters.
AvailableActionsAll == Alphabet

\* get_available_actions(), as a set.
AvailableActions == Alphabet \ guessed_letters

\* num_episodes of train and num_games of evaluate; the episodes of all the
\* calls together stay within these too.
EpisodeCounts == {0, 1, 2}

\* The call sequences of train and evaluate that are followed.
CallPlans == {<<"train">>, <<"evaluate">>, <<"train", "evaluate">>}

\* What choose_action(state, available, training) may do on a non-empty list:
\* the list as get_available_actions() gave it, the branch taken, the action
\* returned, the predictor's answer and the table as the call leaves it.  The
\* explore branch is taken when a draw of random.random(), in [0, 1), can fall
\* below epsilon, the exploit branch when it can fall at or above it.  The
\* explore branch does not read the order of the list, which is then taken in
\* alphabet order.
ChooseAction(training) ==
    LET probs == PredictLetterProbabilities(models, letter_frequencies,
                                            state.masked_word,
                                            state.guessed_letters)
        key == StateKey(state)
        inOrder == InAlphabetOrder(AvailableActions, 1)
        explore ==
            IF training /\ RatLess(RatZero, epsilon)
            THEN {[explored |-> TRUE, available |-> inOrder, action |-> a,
                   probs |-> probs, q |-> q_table] :
                     a \in ExploreChoices(probs, inOrder)}
            ELSE {}
        exploit ==
            IF ~training \/ RatLess(epsilon, RatOf(1))
            THEN {[explored |-> FALSE, available |-> o,
                   action |-> ExploitChoice(q_table, key, probs, o),
                   probs |-> probs,
                   q |-> QTouched(q_table, key, Elements(o))] :
                     o \in Orders(AvailableActions)}
            ELSE {}
    IN  explore \cup exploit

\* The loop's lines from get_available_actions() to env.step(action), for one
\* outcome c of choose_action.
ChooseAndStep(c) ==
    /\ hmm_masked' = state.masked_word
    /\ hmm_guessed' = state.guessed_letters
    /\ hmm_called' = TRUE
    /\ hmm_probs' = c.probs
    /\ UNCHANGED <<models, letter_frequencies>>
    /\ available' = c.available
    /\ explored' = c.explored
    /\ action' = c.action
    /\ StepBody(c.action)

\* train(env, num_episodes): the call, up to the for loop.
TrainStart(n) ==
    /\ pc = "idle"
    /\ Append(calls, "train") \in CallPlans
    /\ calls' = Append(calls, "train")
    /\ num_episodes' = n
    /\ episode' = 0
    /\ pc' = "train_for"
    /\ UNCHANGED <<total_reward, ep_wrong, ep_repeated, wins, total_wrong,
                   total_repeated, results, available, action, explored>>
    /\ UNCHANGED <<envVars, callVars, hmmVars, agentVars>>

\* A while loop that goes on until the game is won.
LoopContinuesUntilWon == ~state.won

\* while not state['game_over']
LoopContinues == ~state.game_over

\* One more episode of train: state = env.reset() and the episode's counters.
TrainEpisodeStart ==
    /\ pc = "train_for"
    /\ episode < num_episodes
    /\ ResetRandomBody
    /\ total_reward' = 0
    /\ ep_wrong' = 0
    /\ pc' = "train_while"
    /\ UNCHANGED <<calls, num_episodes, episode, ep_repeated, wins, total_wrong,
                   total_repeated, results, available, action, explored>>
    /\ UNCHANGED <<hmmVars, agentVars>>

\* One iteration of train's while loop.
TrainIteration ==
    /\ pc = "train_while"
    /\ LoopContinues
    /\ AvailableActions # {}
    /\ \E c \in ChooseAction(TRUE) :
         /\ ChooseAndStep(c)
         /\ q_table' = QAfterUpdate(c.q, state, c.action, reward', state', done')
    /\ total_reward' = total_reward + reward'
    /\ ep_wrong' = IF ~info'.correct /\ ~info'.repeated THEN ep_wrong + 1
                   ELSE ep_wrong
    /\ UNCHANGED <<epsilon, training_stats>>
    /\ UNCHANGED <<calls, pc, num_episodes, episode, ep_repeated, wins,
                   total_wrong, total_repeated, results>>

\* The while loop of train or evaluate with no letter left: choose_action
\* returns None and env.step(None) raises on letter.lower(); the exception
\* ends the call.
LoopCrash ==
    /\ pc \in {"train_while", "eval_while"}
    /\ LoopContinues
    /\ AvailableActions = {}
    /\ available' = <<>>
    /\ action' = NoneAction
    /\ pc' = "crashed"
    /\ UNCHANGED <<calls, num_episodes, episode, total_reward, ep_wrong,
                   ep_repeated, wins, total_wrong, total_repeated, results,
                   explored>>
    /\ UNCHANGED <<envVars, callVars, hmmVars, agentVars>>

\* The end of an episode of train: decay_epsilon() and the statistics.
TrainEpisodeEnd ==
    /\ pc = "train_while"
    /\ ~LoopContinues
    /\ epsilon' = DecayedEpsilon(epsilon)
    /\ training_stats' =
         [episodes |-> Append(training_stats.episodes, episode),
          rewards |-> Append(training_stats.rewards, total_reward),
          wins |-> Append(training_stats.wins, IF state.won THEN 1 ELSE 0),
          wrong_guesses |-> Append(training_stats.wrong_guesses, ep_wrong)]
    /\ episode' = episode + 1
    /\ pc' = "train_for"
    /\ UNCHANGED q_table
    /\ UNCHANGED <<calls, num_episodes, total_reward, ep_wrong, ep_repeated,
                   wins, total_wrong, total_repeated, results, available,
                   action, explored>>
    /\ UNCHANGED <<envVars, callVars, hmmVars>>

\* train returns.
TrainReturn ==
    /\ pc = "train_for"
    /\ episode = num_episodes
    /\ pc' = "idle"
    /\ UNCHANGED <<calls, num_episodes, episode, total_reward, ep_wrong,
                   ep_repeated, wins, total_wrong, total_repeated, results,
                   available, action, explored>>
    /\ UNCHANGED <<envVars, callVars, hmmVars, agentVars>>

\* evaluate(env, num_games): the call, up to the for loop.
EvaluateStart(n) ==
    /\ pc = "idle"
    /\ Append(calls, "evaluate") \in CallPlans
    /\ n + Len(training_stats.episodes) \in EpisodeCounts
    /\ calls' = Append(calls, "evaluate")
    /\ num_episodes' = n
    /\ episode' = 0
    /\ wins' = 0
    /\ total_wrong' = 0
    /\ total_repeated' = 0
    /\ pc' = "eval_for"
    /\ UNCHANGED <<total_reward, ep_wrong, ep_repeated, results, available,
                   action, explored>>
    /\ UNCHANGED <<envVars, callVars, hmmVars, agentVars>>

\* One more game of evaluate: state = env.reset() and the game's counters.
EvaluateGameStart ==
    /\ pc = "eval_for"
    /\ episode < num_episodes
    /\ ResetRandomBody
    /\ ep_wrong' = 0
    /\ ep_repeated' = 0
    /\ pc' = "eval_while"
    /\ UNCHANGED <<calls, num_episodes, episode, total_reward, wins, total_wrong,
                   total_repeated, results, available, action, explored>>
    /\ UNCHANGED <<hmmVars, agentVars>>

\* One iteration of evaluate's while loop.
EvaluateIteration ==
    /\ pc = "eval_while"
    /\ LoopContinues
    /\ AvailableActions # {}
    /\ \E c \in ChooseAction(FALSE) :
         /\ ChooseAndStep(c)
         /\ q_table' = c.q
    /\ ep_repeated' = IF info'.repeated THEN ep_repeated + 1 ELSE ep_repeated
    /\ ep_wrong' = IF ~info'.repeated /\ ~info'.correct THEN ep_wrong + 1
                   ELSE ep_wrong
    /\ UNCHANGED <<epsilon, training_stats>>
    /\ UNCHANGED <<calls, pc, num_episodes, episode, total_reward, wins,
                   total_wrong, total_repeated, results>>

\* The end of a game of evaluate.
EvaluateGameEnd ==
    /\ pc = "eval_while"
    /\ ~LoopContinues
    /\ wins' = IF state.won THEN wins + 1 ELSE wins
    /\ total_wrong' = total_wrong + ep_wrong
    /\ total_repeated' = total_repeated + ep_repeated
    /\ episode' = episode + 1
    /\ pc' = "eval_for"
    /\ UNCHANGED <<calls, num_episodes, total_reward, ep_wrong, ep_repeated,
                   results, available, action, explored>>
    /\ UNCHANGED <<envVars, callVars, hmmVars, agentVars>>

\* final_score with the success rate taken for the number of wins.
FinalScoreOfRate(success_rate, num_games, t_wrong, t_repeated) ==
    RatSub(RatSub(success_rate, RatOf(t_wrong * 5)), RatOf(t_repeated * 2))

\* final_score = (success_rate * num_games) - (total_wrong * 5)
\*               - (total_repeated * 2)
FinalScore(success_rate, num_games, t_wrong, t_repeated) ==
    RatSub(RatSub(RatMul(success_rate, RatOf(num_games)), RatOf(t_wrong * 5)),
           RatOf(t_repeated * 2))

\* evaluate builds its report and returns; wins / num_games raises
\* ZeroDivisionError when num_games is 0.
EvaluateReturn ==
    /\ pc = "eval_for"
    /\ episode = num_episodes
    /\ IF num_episodes = 0
       THEN /\ pc' = "crashed"
            /\ UNCHANGED results
       ELSE LET success_rate == Rat(wins, num_episodes)
                final_score == FinalScore(success_rate, num_episodes,
                                          total_wrong, total_repeated)
            IN  /\ pc' = "idle"
                /\ results' = [success_rate |-> success_rate,
                               wins |-> wins,
                               total_games |-> num_episodes,
                               total_wrong_guesses |-> total_wrong,
                               total_repeated_guesses |-> total_repeated,
                               final_score |-> final_score]
    /\ UNCHANGED <<calls, num_episodes, episode, total_reward, ep_wrong,
                   ep_repeated, wins, total_wrong, total_repeated, available,
                   action, explored>>
    /\ UNCHANGED <<envVars, callVars, hmmVars, agentVars>>

\* ------------------------------------------------------------ inputs

\* The characters a guess is drawn from.
GuessInputs == Alphabet \cup Uppers \cup {Accented}

\* The words handed to reset(word): one letter, two letters, a letter twice,
\* three letters, capitals, and words with a character outside the alphabet.
ResetInputs ==
    { <<"a">>, <<"a", "b">>, <<"b", "b">>, <<"B", "a">>, <<"c", "a", "b">>,
      <<"a", "b", "a">>, <<Accented>>, <<Accented, "a">> }

\* The values of max_wrong the environment is constructed with.
MaxWrongs == 0..(NumLetters + 1)

\* ------------------------------------------------------ specifications

\* HangmanEnvironment(word_list_file, max_wrong), before any reset.
EnvConstructed(f, mw) ==
    /\ word_list = LoadWordsFrom(f)
    /\ max_wrong = mw
    /\ target_word = NoneVal
    /\ masked_word = NoneVal
    /\ guessed_letters = {}
    /\ wrong_guesses = 0
    /\ game_over = FALSE
    /\ won = FALSE
    /\ op = "init"
    /\ word = NoneVal
    /\ letter = NoLetter
    /\ state = GetState(masked_word, guessed_letters, wrong_guesses,
                        game_over, won, target_word)
    /\ reward = 0
    /\ done = FALSE
    /\ info = NoInfo

\* HangmanHMM(), before any train, with no prediction asked.
HmmConstructed ==
    /\ models = EmptyDict
    /\ letter_frequencies = EmptyDict
    /\ hmm_masked = NoneVal
    /\ hmm_guessed = {}
    /\ hmm_called = FALSE
    /\ hmm_probs = EmptyDict

Init ==
    /\ \E f \in CorpusFiles, mw \in MaxWrongs : EnvConstructed(f, mw)
    /\ HmmConstructed
    /\ AgentConstructed(EpsilonStartDefault)

\* The environment driven by a caller that keeps step's precondition.
Next ==
    \/ \E w \in ResetInputs : Reset(w)
    \/ ResetRandom
    \/ \E l \in GuessInputs : Step(l)

Spec == Init /\ [][Next]_vars

\* The environment driven by any caller: step is also called after game over.
NextAnyCaller ==
    \/ Next
    \/ \E l \in GuessInputs : StepAfterGameOver(l)

SpecAnyCaller == Init /\ [][NextAnyCaller]_vars

\* ------------------------------------------------- the predictor alone

RECURSIVE MasksOfLen(_)
\* Masked words of n characters: letters and placeholders.
MasksOfLen(n) ==
    IF n = 0 THEN {<<>>}
    ELSE {<<c>> \o m : c \in Alphabet \cup {Placeholder}, m \in MasksOfLen(n - 1)}

\* The longest masked word whose every pattern is tried.
MaxMaskLen == 2

\* The masked words handed to the predictor: every pattern up to MaxMaskLen,
\* and one longer than any trained word.
MaskInputs ==
    UNION {MasksOfLen(n) : n \in 1..MaxMaskLen}
      \cup {[i \in 1..(MaxMaskLen + 1) |-> Placeholder]}

\* The guessed sets handed to the predictor.
GuessedInputs == SUBSET (Alphabet \cup {Accented})

\* DEFAULT_MAX_WRONG: max_wrong=6.
DefaultMaxWrong == 6

\* A constructed predictor and the arguments of the call to come.
InitHMM ==
    /\ EnvConstructed(<<>>, DefaultMaxWrong)
    /\ models = EmptyDict
    /\ letter_frequencies = EmptyDict
    /\ hmm_masked \in MaskInputs
    /\ hmm_guessed \in GuessedInputs
    /\ hmm_called = FALSE
    /\ hmm_probs = EmptyDict
    /\ AgentConstructed(EpsilonStartDefault)

NextHMM ==
    \/ \E f \in HmmCorpusFiles : HmmTrain(f)
    \/ HmmPredict

SpecHMM == InitHMM /\ [][NextHMM]_vars

\* ------------------------------------------------- the agent's loops

\* The values of max_wrong of the environment the agent plays on: one life,
\* and more lives than the alphabet has letters.
AgentMaxWrongs == {1, NumLetters + 1}

\* An environment, a predictor trained on one corpus file (or on an empty
\* one), and an agent built on it with the default parameters.
InitAgent ==
    /\ \E f \in CorpusFiles, mw \in AgentMaxWrongs : EnvConstructed(f, mw)
    /\ \E hf \in HmmCorpusFiles :
          /\ models = ModelsAfterTrain(EmptyDict, hf)
          /\ letter_frequencies = FrequenciesAfterTrain(EmptyDict, hf)
    /\ hmm_masked = NoneVal
    /\ hmm_guessed = {}
    /\ hmm_called = FALSE
    /\ hmm_probs = EmptyDict
    /\ AgentConstructed(EpsilonStartDefault)

NextAgent ==
    \/ \E n \in EpisodeCounts : TrainStart(n)
    \/ TrainEpisodeStart
    \/ TrainIteration
    \/ TrainEpisodeEnd
    \/ TrainReturn
    \/ \E n \in EpisodeCounts : EvaluateStart(n)
    \/ EvaluateGameStart
    \/ EvaluateIteration
    \/ EvaluateGameEnd
    \/ EvaluateReturn
    \/ LoopCrash

SpecAgent == InitAgent /\ [][NextAgent]_vars

\* ------------------------------------- a long training on a lost cause

\* A corpus of one word that no letter of the alphabet occurs in.
NoFitCorpus == << <<Accented>> >>

\* The episodes of the long training: enough for every letter to be guessed
\* wrong once and for two more episodes.
LongTraining == NumLetters + 2

\* epsilon_start of the long training: one decay above epsilon_end.
LongTrainingEpsilon == Rat(101, 1000)

\* An environment of one life on the corpus no letter fits, a trained
\* predictor and a new agent with epsilon_start=0.101, which the second
\* decay brings to epsilon_end.
InitLongTraining ==
    /\ EnvConstructed(NoFitCorpus, 1)
    /\ \E hf \in HmmCorpusFiles :
          /\ models = ModelsAfterTrain(EmptyDict, hf)
          /\ letter_frequencies = FrequenciesAfterTrain(EmptyDict, hf)
    /\ hmm_masked = NoneVal
    /\ hmm_guessed = {}
    /\ hmm_called = FALSE
    /\ hmm_probs = EmptyDict
    /\ AgentConstructed(LongTrainingEpsilon)

\* agent.train(env, LongTraining)
NextLongTraining ==
    \/ TrainStart(LongTraining)
    \/ TrainEpisodeStart
    \/ TrainIteration
    \/ TrainEpisodeEnd
    \/ TrainReturn

SpecLongTraining == InitLongTraining /\ [][NextLongTraining]_vars

\* ------------------------------------------------- environment claims

RECURSIVE CountIn(_, _)
\* How many times character c occurs in word w.
CountIn(w, c) ==
    IF w = <<>> THEN 0
    ELSE (IF Head(w) = c THEN 1 ELSE 0) + CountIn(Tail(w), c)

\* No placeholder is left in mask m.
NoPlaceholder(m) == \A i \in 1..Len(m) : m[i] # Placeholder

\* The last call on the environment returned a GameState.
Returned == op \in {"reset", "step"}

\* C1: a step made while the game is on returns -2 for a letter already
\* guessed; otherwise 10*k for a letter that occurs k >= 1 times in the
\* target, plus 100 when the guess leaves no placeholder in the mask;
\* otherwise -5, and -55 when the wrong guess brings wrong_guesses to
\* max_wrong (at or past it).
C1_RewardExact ==
    [][op' = "step" =>
        LET lt == LowerChar(letter')
            k == CountIn(target_word, lt)
        IN  reward' =
              IF lt \in guessed_letters THEN -2
              ELSE IF k >= 1
                   THEN 10 * k + (IF NoPlaceholder(masked_word') THEN 100 ELSE 0)
                   ELSE IF wrong_guesses + 1 >= max_wrong THEN -55 ELSE -5]_vars

\* C1's case: a letter that occurs twice completed the word.
C1_Witness ==
    /\ op = "step"
    /\ target_word = <<"b", "b">>
    /\ reward = 120

\* C2: a step on a letter that is already guessed changes nothing of the
\* game: the mask, wrong_guesses, lives_remaining, won, game_over and the
\* guessed set stay, info.repeated is true and done is the game_over held
\* before the step.
C2_RepeatedGuessKeepsState ==
    [][(op' = "step" /\ LowerChar(letter') \in guessed_letters) =>
        /\ masked_word' = masked_word
        /\ wrong_guesses' = wrong_guesses
        /\ won' = won
        /\ game_over' = game_over
        /\ guessed_letters' = guessed_letters
        /\ state'.masked_word = state.masked_word
        /\ state'.lives_remaining = state.lives_remaining
        /\ state'.wrong_guesses = state.wrong_guesses
        /\ state'.guessed_letters = state.guessed_letters
        /\ info'.repeated
        /\ done' = game_over]_vars

\* C2's case: a letter was guessed again, in capitals, with part of the word
\* revealed.
C2_Witness ==
    /\ op = "step"
    /\ info.repeated
    /\ letter \in Uppers
    /\ ~NoPlaceholder(masked_word)
    /\ \E i \in 1..Len(masked_word) : masked_word[i] # Placeholder

\* C3: after reset and steps made while the game is on, game_over holds
\* exactly when won holds or lives_remaining is 0, and lives_remaining is at
\* least 0 while game_over is false.
C3_GameOverIffWonOrNoLives ==
    Returned =>
        /\ game_over <=> (won \/ state.lives_remaining = 0)
        /\ ~game_over => state.lives_remaining >= 0

\* C4: every GameState returned by reset or step has
\* wrong_guesses + lives_remaining = max_wrong.
C4_LivesPlusWrong ==
    Returned => state.wrong_guesses + state.lives_remaining = max_wrong

\* C4's case: a state returned by a step that followed the loss, with more
\* wrong guesses than max_wrong.
C4_Witness ==
    /\ op = "step"
    /\ state.wrong_guesses > max_wrong
    /\ max_wrong > 0

\* C5: within an episode the mask is as long as the target, and no step
\* re-masks or changes a position that shows a letter.
C5_MaskMonotone ==
    /\ [](Returned => Len(masked_word) = Len(target_word))
    /\ [][op' = "step" =>
            \A i \in 1..Len(masked_word) :
                masked_word[i] # Placeholder => masked_word'[i] = masked_word[i]]_vars

\* C5's case: two letters revealed by two steps, one position still masked.
C5_Witness ==
    /\ op = "step"
    /\ masked_word = <<"c", "a", Placeholder>>

\* C6: the guessed set is empty after reset, and every step, in every
\* branch, makes it the set before united with the lowercased letter.
C6_GuessedGrows ==
    [][/\ op' = "reset" => guessed_letters' = {}
       /\ op' = "step" =>
            guessed_letters' = guessed_letters \cup {LowerChar(letter')}]_vars

\* C6's case: a capital letter guessed as a wrong guess after other guesses.
C6_Witness ==
    /\ op = "step"
    /\ letter \in Uppers
    /\ ~info.repeated
    /\ ~info.correct
    /\ Cardinality(guessed_letters) >= 2

\* C7: reset returns a fresh state whatever came before: the target is the
\* lowercased word (a word of the list when none is given), the mask is all
\* placeholders of the target's length, nothing is guessed, wrong_guesses is
\* 0, lives_remaining is max_wrong, won and game_over are false.
C7_ResetFresh ==
    op = "reset" =>
        /\ word # NoneVal =>
              /\ Len(target_word) = Len(word)
              /\ \A i \in 1..Len(word) : target_word[i] = LowerChar(word[i])
        /\ word = NoneVal => \E i \in 1..Len(word_list) : target_word = word_list[i]
        /\ Len(masked_word) = Len(target_word)
        /\ \A i \in 1..Len(masked_word) : masked_word[i] = Placeholder
        /\ guessed_letters = {}
        /\ wrong_guesses = 0
        /\ ~won
        /\ ~game_over
        /\ state = [masked_word |-> masked_word, guessed_letters |-> {},
                    wrong_guesses |-> 0, lives_remaining |-> max_wrong,
                    game_over |-> FALSE, won |-> FALSE,
                    target_word |-> target_word]

\* C7's case: reset was given a word in capitals.
C7_Witness ==
    /\ op = "reset"
    /\ word = <<"B", "a">>
    /\ target_word = <<"b", "a">>

\* C9: an episode in which every letter of the alphabet is guessed and won
\* is false has game_over true.
C9_AllGuessedNotWonIsOver ==
    (op = "step" /\ Alphabet \subseteq guessed_letters /\ ~won) => game_over

\* --------------------------------------------------- predictor claims

\* The letters of Alphabet that are not guessed.
Unguessed == Alphabet \ hmm_guessed

\* The predictor took a scoring path: the length has a model.
HasLengthModel == Len(hmm_masked) \in DOMAIN models

\* The training words the scoring path of the call counts: all words of the
\* length on the position-based path, the matching words on the
\* frequency-based path.
CountedWords ==
    LET ws == models[Len(hmm_masked)].words
        matching == FilterMatchingWords(ws, hmm_masked, hmm_guessed)
    IN  IF Len(matching) < MinMatchingWords THEN ws ELSE matching

\* The unguessed letters that some counted word has at an unrevealed position.
ScoredLetters ==
    {l \in Unguessed :
        \E i \in 1..Len(CountedWords), pos \in Unrevealed(hmm_masked) :
            CountedWords[i][pos] = l}

\* C10, as stated: the keys of the returned distribution are exactly the
\* alphabet minus the guessed set, on every path.
C10_KeysAreAllUnguessed ==
    hmm_called => DOMAIN hmm_probs = Unguessed

\* C10, amended: the keys are always unguessed letters of the alphabet; on
\* the fallback path (no model for the length, or no letter scored) they are
\* all of them; on a scoring path they are the unguessed letters that
\* scored.
C10_KeysWithinUnguessed ==
    hmm_called =>
        /\ DOMAIN hmm_probs \subseteq Unguessed
        /\ ~HasLengthModel => DOMAIN hmm_probs = Unguessed
        /\ HasLengthModel =>
              DOMAIN hmm_probs = IF ScoredLetters = {} THEN Unguessed
                                 ELSE ScoredLetters

\* C10's case: a scoring path returned some, but not all, unguessed letters.
C10_Witness ==
    /\ hmm_called
    /\ HasLengthModel
    /\ DOMAIN hmm_probs # {}
    /\ DOMAIN hmm_probs # Unguessed
    /\ hmm_guessed # {}

\* ------------------------------------------------------- agent claims

\* C8: every episode run by train or evaluate terminates: the loop of
\* choose_action and step has game_over true after at most one step per
\* letter of the alphabet, so a loop that has guessed every letter has
\* ended its episode and has no further action to choose.
C8_EpisodeEndsWithinAlphabet ==
    (/\ pc \in {"train_while", "eval_while"}
     /\ Cardinality(guessed_letters) >= Cardinality(Alphabet))
        => state.game_over

\* --------------------------------------------- predictor claims, continued

\* The call of the predictor ended in an error.
Raised == hmm_probs = ZeroDivisionError

\* C11: for a masked word whose length has no trained model, an empty
\* corpus included, and at least one unguessed letter, the predictor raises
\* no error and returns a distribution over exactly the unguessed letters,
\* each with a strictly positive probability, that sums to 1.
C11_FallbackIsDistribution ==
    (hmm_called /\ ~HasLengthModel /\ Unguessed # {}) =>
        /\ ~Raised
        /\ DOMAIN hmm_probs = Unguessed
        /\ \A l \in DOMAIN hmm_probs : RatLess(RatZero, hmm_probs[l])
        /\ SumValues(hmm_probs) = Rat(1, 1)

\* C11's case: an untrained predictor, or one trained on an empty corpus,
\* asked about a word with some letters guessed and some not.
C11_Witness ==
    /\ hmm_called
    /\ letter_frequencies = EmptyDict
    /\ hmm_guessed \cap Alphabet # {}
    /\ Unguessed # {}
    /\ DOMAIN hmm_probs = Unguessed

\* ------------------------------------------ environment claims, continued

\* C12: a step on an episode whose game_over is already true is rejected or
\* is a no-op: the mask, wrong_guesses, lives_remaining, won and game_over
\* stay as they were.
C12_StepAfterGameOverIsNoOp ==
    [][(game_over /\ op' = "step") =>
        /\ masked_word' = masked_word
        /\ wrong_guesses' = wrong_guesses
        /\ state'.lives_remaining = max_wrong - wrong_guesses
        /\ won' = won
        /\ game_over' = game_over]_vars

\* ------------------------------------------------ agent claims, continued

\* A call of evaluate is running.
InEvaluate == pc \in {"eval_for", "eval_while"}

\* C13: evaluate leaves the table of values unchanged: no step of a running
\* evaluate adds an entry, changes a value or changes epsilon.
C13_EvaluateKeepsTable ==
    [][InEvaluate => (q_table' = q_table /\ epsilon' = epsilon)]_vars

\* A number as 1 when the condition holds, 0 otherwise.
Count(cond) == IF cond THEN 1 ELSE 0

InLoop == pc \in {"train_while", "eval_while"}

\* C15: the loops of train and evaluate keep the environment's precondition:
\* every step they make is made with game_over false, and none is made once
\* a step of the episode has returned done = TRUE.
C15_LoopStepsWhileGameOn ==
    [][((InLoop /\ pc' = pc) \/ (op' = "step" /\ callVars' # callVars)) =>
        /\ op' = "step"
        /\ ~game_over
        /\ ~state.game_over
        /\ ~done]_vars

\* C15's case: a step of a loop has returned done = TRUE on a lost game, with
\* the loop about to leave.
C15_Witness ==
    /\ InLoop
    /\ op = "step"
    /\ done
    /\ game_over
    /\ ~won
    /\ Cardinality(guessed_letters) >= 2

\* The values the table records for a key.
Recorded(q, key) == {q[key][b] : b \in QLetters(q, key)}

\* M of the update: 0 when done or when the table records nothing for the
\* key of the next state, else the greatest value it records for that key.
MaxNext(q, nkey, d) ==
    IF d \/ Recorded(q, nkey) = {} THEN RatZero
    ELSE CHOOSE m \in Recorded(q, nkey) :
            \A v \in Recorded(q, nkey) : ~RatLess(m, v)

\* C16: the update of an iteration of train sets Q[key(s), a] to
\* Q[key(s), a] + alpha * (r + gamma * M - Q[key(s), a]), with M as above
\* and an entry the table does not hold read as 0; the value of no other
\* (state key, letter) entry changes.
C16_UpdateRule ==
    [][(pc = "train_while" /\ pc' = pc) =>
        LET key == StateKey(state)
            old == QValue(q_table, key, action')
            m == MaxNext(q_table, StateKey(state'), done')
        IN  /\ QValue(q_table', key, action') =
                 RatAdd(old,
                        RatMul(Rat(1, 10),
                               RatSub(RatAdd(RatOf(reward'),
                                             RatMul(Rat(95, 100), m)),
                                      old)))
            /\ \A k \in DOMAIN q_table : QLetters(q_table, k) \subseteq
                                           QLetters(q_table', k)
            /\ \A k \in DOMAIN q_table' : \A b \in DOMAIN q_table'[k] :
                  <<k, b>> # <<key, action'>> =>
                      q_table'[k][b] = QValue(q_table, k, b)]_vars

\* C16's case: an update whose next state already holds recorded values, the
\* greatest of them not 0, while other entries are in the table.
C16_Witness ==
    /\ pc = "train_while"
    /\ op = "step"
    /\ ~done
    /\ Recorded(q_table, StateKey(state)) # {}
    /\ MaxNext(q_table, StateKey(state), FALSE) # RatZero
    /\ Cardinality(DOMAIN q_table) >= 3

\* Q[state_key][letter] + 10 * predictor_probability(letter, default 0.001)
Score(q, key, probs, l) ==
    RatAdd(QValue(q, key, l),
           RatMul(IF l \in DOMAIN probs THEN probs[l] ELSE Rat(1, 1000),
                  RatOf(10)))

\* The key of the state the last choose_action of a loop was given, told
\* from the state its step returned.
ChosenAtKey ==
    <<hmm_masked, hmm_guessed,
      max_wrong - wrong_guesses + Count(~info.correct /\ ~info.repeated)>>

\* C17: in exploit mode, with letters available, choose_action returns an
\* available letter whose combined score is the greatest over the available
\* letters, and among several such letters the first in the order of
\* available_actions; available_actions holds the unguessed letters.
C17_ExploitPicksFirstBest ==
    [][(InLoop /\ pc' = pc /\ ~explored') =>
        LET key == StateKey(state)
            sc(l) == Score(q_table, key, hmm_probs', l)
        IN  /\ {available'[i] : i \in 1..Len(available')}
                  = Alphabet \ guessed_letters
            /\ \E i \in 1..Len(available') :
                  /\ available'[i] = action'
                  /\ \A j \in 1..Len(available') :
                        /\ ~RatLess(sc(action'), sc(available'[j]))
                        /\ j < i => RatLess(sc(available'[j]), sc(action'))]_vars

\* C17's case: an exploit choice between several letters of the same
\* greatest score, with the list in another order than the alphabet's.
C17_Witness ==
    /\ InLoop
    /\ op = "step"
    /\ ~explored
    /\ Len(available) >= 2
    /\ available[1] = action
    /\ available[1] # "a"
    /\ "a" \in Elements(available)
    /\ Score(q_table, ChosenAtKey, hmm_probs, "a")
          = Score(q_table, ChosenAtKey, hmm_probs, action)

\* The letters the exploit branch of choose_action may return in the state
\* the loop is in.
ExploitReturns ==
    {c.action : c \in {d \in ChooseAction(pc = "train_while") : ~d.explored}}

\* The loop is about to choose in exploit mode, every available letter
\* having a combined score that is not positive.
ExploitOnNonPositive ==
    /\ InLoop
    /\ LoopContinues
    /\ AvailableActions # {}
    /\ ExploitReturns # {}
    /\ \A l \in AvailableActions :
          ~RatLess(RatZero,
                   Score(q_table, StateKey(state),
                         PredictLetterProbabilities(models, letter_frequencies,
                                                    state.masked_word,
                                                    state.guessed_letters), l))

\* C18, as stated: in exploit mode, when every available letter has a
\* combined score that is not positive, every available letter is a possible
\* return value.
C18_FallbackReturnsAnyLetter ==
    ExploitOnNonPositive => ExploitReturns = AvailableActions

\* C18, amended: in exploit mode, when every available letter has a combined
\* score that is not positive, the letter returned is still one of the
\* greatest combined score; the random fallback is not taken.
C18_NoFallbackOnNonPositive ==
    ExploitOnNonPositive =>
        \A a \in ExploitReturns : \A l \in AvailableActions :
            LET probs == PredictLetterProbabilities(models, letter_frequencies,
                                                    state.masked_word,
                                                    state.guessed_letters)
            IN  ~RatLess(Score(q_table, StateKey(state), probs, a),
                         Score(q_table, StateKey(state), probs, l))

\* C18's case: an exploit choice between letters whose scores are all below
\* zero and not all the same.
C18_Witness ==
    /\ ExploitOnNonPositive
    /\ Cardinality(AvailableActions) = NumLetters
    /\ ExploitReturns # AvailableActions

\* An episode of train ends: the step from the while loop back to the for
\* loop.
EpisodeEnds == pc = "train_while" /\ pc' = "train_for"

\* Each list of the statistics has n entries.
StatsHave(stats, n) ==
    /\ Len(stats.episodes) = n
    /\ Len(stats.rewards) = n
    /\ Len(stats.wins) = n
    /\ Len(stats.wrong_guesses) = n

\* C19: during train epsilon changes only at the end of an episode, after
\* its game_over and before the next reset, once, to
\* max(epsilon_floor, epsilon * decay_rate), and the statistics lists get
\* their one entry each there and nowhere else; so after train(env, n) there
\* were n decays and n entries in each list.
C19_DecayOncePerEpisode ==
    /\ [][(epsilon' # epsilon \/ training_stats' # training_stats)
              => EpisodeEnds]_vars
    /\ [][EpisodeEnds =>
            /\ game_over
            /\ state.game_over
            /\ op = "step"
            /\ epsilon' = (IF RatLess(RatMul(epsilon, Rat(995, 1000)), Rat(1, 10))
                           THEN Rat(1, 10)
                           ELSE RatMul(epsilon, Rat(995, 1000)))
            /\ StatsHave(training_stats', episode + 1)
            /\ episode' = episode + 1]_vars
    /\ [][(pc = "train_for" /\ pc' = "train_while") =>
            (op' = "reset" /\ ~game_over')]_vars
    /\ [](pc \in {"train_for", "train_while"} => StatsHave(training_stats, episode))
    /\ [][(pc = "train_for" /\ pc' = "idle") =>
            StatsHave(training_stats', num_episodes)]_vars

\* C19's case: train has returned after all its episodes, the decay having
\* met the floor on the way.
C19_Witness ==
    /\ pc = "idle"
    /\ calls = <<"train">>
    /\ num_episodes = LongTraining
    /\ StatsHave(training_stats, LongTraining)
    /\ epsilon = Rat(1, 10)

\* C20: the agent never repeats a guess: with letters available, the action
\* of every iteration of train and evaluate, explore and exploit alike, is a
\* member of available_actions, which holds the alphabet minus the guessed
\* set; so no step of a loop has info.repeated true or a reward of -2, and
\* the repeated-guess counters and the report's total_repeated_guesses stay 0.
C20_NeverRepeats ==
    /\ [][(InLoop /\ pc' = pc) =>
            /\ {available'[i] : i \in 1..Len(available')}
                  = Alphabet \ guessed_letters
            /\ action' \in Alphabet \ guessed_letters
            /\ letter' = action'
            /\ ~info'.repeated
            /\ reward' # -2
            /\ guessed_letters' = guessed_letters \cup {action'}]_vars
    /\ [](/\ ep_repeated = 0
          /\ total_repeated = 0
          /\ results.total_repeated_guesses = 0)

\* C20's case: an exploit choice made the last guess of an episode in which
\* every letter was guessed, each one once.
C20_Witness ==
    /\ InLoop
    /\ op = "step"
    /\ ~explored
    /\ ~info.repeated
    /\ guessed_letters = Alphabet
    /\ wrong_guesses + Cardinality({l \in Alphabet : InWord(l, target_word)})
          = NumLetters

\* ------------------------------------------ environment claims, the last

\* C21: in every state reached by reset and step, the mask is determined by
\* the target and the guessed set: a position shows the target's character
\* when that character is guessed and the placeholder otherwise; so won holds
\* only when every character of the target is guessed, and wrong_guesses is
\* the number of guessed letters that do not occur in the target.
C21_MaskFromTargetAndGuessed ==
    Returned =>
        /\ Len(masked_word) = Len(target_word)
        /\ \A i \in 1..Len(target_word) :
              masked_word[i] = IF target_word[i] \in guessed_letters
                               THEN target_word[i]
                               ELSE Placeholder
        /\ won => \A i \in 1..Len(target_word) : target_word[i] \in guessed_letters
        /\ wrong_guesses =
              Cardinality({l \in guessed_letters :
                              \A i \in 1..Len(target_word) : target_word[i] # l})

\* C21's case: a letter that occurs twice is revealed, another is still
\* masked, and a wrong guess and a repeated guess have been made.
C21_Witness ==
    /\ op = "step"
    /\ info.repeated
    /\ target_word = <<"a", "b", "a">>
    /\ masked_word = <<"a", Placeholder, "a">>
    /\ guessed_letters = {"a", "c"}
    /\ wrong_guesses = 1

====
